---- MODULE Spec2Model ----
(***************************************************************************)
(* Airvibe session relay: a state-machine model of the socket.io servers   *)
(* of the repository.                                                      *)
(*                                                                         *)
(*   - the audio relay engine (rooms / audioHeaders), src/unnamed/part_000 *)
(*     lines 695-814: variables rconn .. firstRecv, specification          *)
(*     SpecRelay;                                                          *)
(*   - the stream server (streams / users), src/server.js: variables       *)
(*     users .. sevent, specifications SpecStream and SpecObserved, and    *)
(*     SpecStreamFair with a fair cleanup timer;                           *)
(*   - the stream server with uuid ids and a listener cap,                 *)
(*     src/unnamed/part_000 lines 124-541: variables uusers .. uevent,     *)
(*     specification SpecUuid, and SpecUuidUpdate with update-stream;      *)
(*   - the global chat server (chatHistory / onlineUsers),                 *)
(*     src/unnamed/part_001: variables chatConn .. pushed, specification   *)
(*     SpecChat.                                                           *)
(*                                                                         *)
(* Every socket.io event handler runs to completion on the single Node.js  *)
(* thread, so one handler is one action.                                   *)
(***************************************************************************)
EXTENDS Integers, Sequences, FiniteSets, TLC

VARIABLES
    \* ---- audio relay engine (src/unnamed/part_000:695-814) ----
    rconn,          \* socket id -> "idle" | "open" | "closed"
    rooms,          \* let rooms = {}        : room id -> [listeners]
    audioHeaders,   \* let audioHeaders = {} : room id -> cached first packet
    rmembers,       \* socket.io adapter: room name -> sockets in the room
    revent,         \* the event whose handler ran last (cleared: the
                    \* handler found a cached header and removed it)
    rsent,          \* the audioBuffer packets that handler put on the wire
    firstSub,       \* history: first chunk accepted for the room's session
    firstHost,      \* history: first chunk the room's own host submitted
    joinHdr,        \* history: firstHost of the room when the socket joined
    firstRecv,      \* history: first chunk the socket got since that join
    \* ---- stream server (src/server.js) ----
    users,          \* const users = new Map()   : socket id -> user info
    streams,        \* const streams = new Map() : stream id -> stream data
    smembers,       \* socket.io adapter: room name -> sockets in the room
    gone,           \* socket ids whose connection has been closed
    now,            \* Date.now(), in minutes since the process started
    created,        \* number of create-stream requests handled so far
    hist,           \* history of the observed listener socket
    sevent,         \* history: what the handler that ran last came to
    \* ---- stream server with uuid ids (src/unnamed/part_000:124-541) ----
    uusers,         \* const users = new Map()   : socket id -> user info
    ustreams,       \* const streams = new Map() : stream id -> stream data
    umembers,       \* socket.io adapter: room name -> sockets in the room
    ugone,          \* socket ids whose connection has been closed
    ucreated,       \* number of uuidv4() calls so far
    uevent,         \* history: what the handler that ran last came to
    \* ---- global chat server (src/unnamed/part_001) ----
    chatConn,       \* socket id -> "idle" | "open" | "closed"
    chatHistory,    \* let chatHistory = []       : the messages kept, oldest first
    onlineUsers,    \* let onlineUsers = new Map() : socket id -> user info
    hostPeerId,     \* let hostPeerId = null
    hostSocketId,   \* let hostSocketId = null
    chatSent,       \* the chat and gift messages the last handler emitted
    pushed          \* number of chat events made so far: the n-th is message n

relayVars  == <<rconn, rooms, audioHeaders, rmembers, revent, rsent,
                firstSub, firstHost, joinHdr, firstRecv>>
streamVars == <<users, streams, smembers, gone, now, created, hist, sevent>>
uuidVars   == <<uusers, ustreams, umembers, ugone, ucreated, uevent>>
chatVars   == <<chatConn, chatHistory, onlineUsers, hostPeerId, hostSocketId,
                chatSent, pushed>>
vars       == <<relayVars, streamVars, uuidVars, chatVars>>

(***************************************************************************)
(* JavaScript values that can arrive as data.chunk, and their truthiness.  *)
(***************************************************************************)
JsNull       == [t |-> "null"]
JsUndefined  == [t |-> "undefined"]
JsString(s)  == [t |-> "string", v |-> s]
JsBuffer(b)  == [t |-> "buffer", v |-> b]

\* ToBoolean: null, undefined and "" are falsy; every object (a Buffer,
\* also an empty one) is truthy.
Truthy(x) ==
    CASE x.t = "null"      -> FALSE
      [] x.t = "undefined" -> FALSE
      [] x.t = "string"    -> x.v # ""
      [] x.t = "buffer"    -> TRUE

\* History marker: no chunk.
NoChunk == [t |-> "none"]

\* The chunks a client submits: the two binary packets of Scenario A, and
\* an empty string.
Chunks == {JsBuffer(<<170>>), JsBuffer(<<187>>), JsString("")}

\* The sockets of the relay engine; a room id is its host's socket id.
RSock == {"k1", "k2", "k3"}

\* The sockets whose client goes live (emits 'broadcaster'), hence the ids
\* that can name a room.
Hosts == {"k1"}

\* Bound on the listeners counter of one room.
MaxRoomListeners == 2

NoEvent == [ev |-> "none"]

(***************************************************************************)
(* Audio relay engine                                                      *)
(***************************************************************************)
Put(f, k, v) == [x \in (DOMAIN f) \cup {k} |-> IF x = k THEN v ELSE f[x]]
Del(f, k)    == [x \in (DOMAIN f) \ {k} |-> f[x]]

\* audioHeaders[roomID] as JavaScript reads it: undefined for a missing key.
Header(roomID) ==
    IF roomID \in DOMAIN audioHeaders THEN audioHeaders[roomID] ELSE JsUndefined

\* History reset for a room whose session starts or ends.
ForgetRoom(r) ==
    /\ firstSub'  = [firstSub  EXCEPT ![r] = NoChunk]
    /\ firstHost' = [firstHost EXCEPT ![r] = NoChunk]
    /\ joinHdr'   = [c \in RSock |-> [joinHdr[c]   EXCEPT ![r] = NoChunk]]
    /\ firstRecv' = [c \in RSock |-> [firstRecv[c] EXCEPT ![r] = NoChunk]]

\* io.on('connection'): the socket joins the room named by its own id.
RConnect(s) ==
    /\ rconn[s] = "idle"
    /\ rconn' = [rconn EXCEPT ![s] = "open"]
    /\ rmembers' = [rmembers EXCEPT ![s] = @ \cup {s}]
    /\ revent' = [ev |-> "connection", sock |-> s]
    /\ rsent' = {}
    /\ UNCHANGED <<rooms, audioHeaders, firstSub, firstHost, joinHdr, firstRecv>>

\* socket.on('broadcaster')
Broadcaster(s) ==
    /\ rconn[s] = "open"
    /\ rooms' = Put(rooms, s, [listeners |-> 0])
    /\ audioHeaders' = Put(audioHeaders, s, JsNull)
    /\ rmembers' = [rmembers EXCEPT ![s] = @ \cup {s}]
    /\ revent' = [ev |-> "broadcaster", sock |-> s, cleared |-> Truthy(Header(s))]
    /\ rsent' = {}
    /\ ForgetRoom(s)
    /\ UNCHANGED rconn

\* Mutant of closeRoom: the cached header of the room is left behind.
closeRoomKeepsHeader(socketId) ==
    IF socketId \in DOMAIN rooms
    THEN /\ rooms' = Del(rooms, socketId)
         /\ UNCHANGED audioHeaders
         /\ ForgetRoom(socketId)
    ELSE UNCHANGED <<rooms, audioHeaders, firstSub, firstHost, joinHdr, firstRecv>>

\* function closeRoom(socketId)
closeRoom(socketId) ==
    IF socketId \in DOMAIN rooms
    THEN /\ rooms' = Del(rooms, socketId)
         /\ audioHeaders' = Del(audioHeaders, socketId)
         /\ ForgetRoom(socketId)
    ELSE UNCHANGED <<rooms, audioHeaders, firstSub, firstHost, joinHdr, firstRecv>>

\* socket.on('stopBroadcast')
StopBroadcast(s) ==
    /\ rconn[s] = "open"
    /\ closeRoom(s)
    /\ revent' = [ev |-> "stopBroadcast", sock |-> s, cleared |-> Truthy(Header(s))]
    /\ rsent' = {}
    /\ UNCHANGED <<rconn, rmembers>>

\* The submission check of socket.on('audioStream'): the room must exist.
SubmitAccepted(s, roomID) == roomID \in DOMAIN rooms

\* The header a submission leaves in the cache.
CacheAfter(roomID, chunk) ==
    IF ~Truthy(Header(roomID)) THEN chunk ELSE Header(roomID)

\* Mutant of VolatileTo: the packet is held back from every target as long
\* as one of them is not ready.
VolatileToAllOrNone(targets, ready) == IF targets \subseteq ready THEN targets ELSE {}

\* socket.to(roomID).volatile.emit: of the targets, the packet reaches the
\* sockets that are ready to be written to; for the others it is dropped.
VolatileTo(targets, ready) == targets \cap ready

\* socket.on('audioStream'): got is the set of room members that are ready
\* to be written to when the handler emits the volatile packet.
AudioStream(s, roomID, chunk, got) ==
    LET reached == VolatileTo(rmembers[roomID] \ {s}, got) IN
    /\ rconn[s] = "open"
    /\ got \subseteq (rmembers[roomID] \ {s})
    /\ revent' = [ev |-> "audioStream", sock |-> s, room |-> roomID, ready |-> got]
    /\ IF ~SubmitAccepted(s, roomID)
       THEN /\ rsent' = {}
            /\ got = {}
            /\ UNCHANGED <<audioHeaders, firstSub, firstHost, firstRecv>>
       ELSE /\ audioHeaders' = Put(audioHeaders, roomID, CacheAfter(roomID, chunk))
            /\ rsent' = {[to |-> c, room |-> roomID, chunk |-> chunk, live |-> TRUE] :
                            c \in reached}
            /\ firstSub' = [firstSub EXCEPT ![roomID] = IF @ = NoChunk THEN chunk ELSE @]
            /\ firstHost' = [firstHost EXCEPT ![roomID] =
                                IF @ = NoChunk /\ s = roomID THEN chunk ELSE @]
            /\ firstRecv' = [c \in RSock |->
                                IF c \in reached /\ firstRecv[c][roomID] = NoChunk
                                THEN [firstRecv[c] EXCEPT ![roomID] = chunk]
                                ELSE firstRecv[c]]
    /\ UNCHANGED <<rconn, rooms, rmembers, joinHdr>>

\* socket.on('joinEvent')
JoinEvent(s, roomID) ==
    /\ rconn[s] = "open"
    /\ revent' = [ev |-> "joinEvent", sock |-> s, room |-> roomID]
    /\ IF roomID \in DOMAIN rooms
       THEN /\ rooms[roomID].listeners < MaxRoomListeners
            /\ rmembers' = [rmembers EXCEPT ![roomID] = @ \cup {s}]
            /\ rooms' = [rooms EXCEPT ![roomID].listeners = @ + 1]
            /\ rsent' = IF Truthy(Header(roomID))
                        THEN {[to |-> s, room |-> roomID, chunk |-> Header(roomID), live |-> FALSE]}
                        ELSE {}
            /\ joinHdr' = [joinHdr EXCEPT ![s][roomID] = firstHost[roomID]]
            /\ firstRecv' = [firstRecv EXCEPT ![s][roomID] =
                                IF Truthy(Header(roomID)) THEN Header(roomID) ELSE NoChunk]
       ELSE /\ rsent' = {}
            /\ UNCHANGED <<rooms, rmembers, joinHdr, firstRecv>>
    /\ UNCHANGED <<rconn, audioHeaders, firstSub, firstHost>>

\* socket.on('disconnect'): socket.io has taken the socket out of every room
\* before the handler runs.
RDisconnect(s) ==
    /\ rconn[s] = "open"
    /\ rconn' = [rconn EXCEPT ![s] = "closed"]
    /\ rmembers' = [r \in DOMAIN rmembers |-> rmembers[r] \ {s}]
    /\ closeRoom(s)
    /\ revent' = [ev |-> "disconnect", sock |-> s, cleared |-> Truthy(Header(s))]
    /\ rsent' = {}

(***************************************************************************)
(* Stream server (src/server.js)                                           *)
(***************************************************************************)

\* The sockets that connect to the stream server.
SSock == {"c1", "c2", "c3"}

\* null and undefined, as values of currentRoom and streamId.
Null      == "<null>"
Undefined == "<undefined>"
IdTruthy(x) == x \notin {Null, Undefined, ""}

\* The sockets whose client is the studio page (emits create-stream) and
\* those whose client is the dashboard page (emits join-stream and
\* leave-stream).  Every socket can emit end-stream.
Producers == {"c1"}
Listeners == {"c2", "c3"}

\* The clock advances in steps of TickMinutes, up to MaxNow.
TickMinutes == 6
MaxNow == 6
Times == {t \in 0..MaxNow : t % TickMinutes = 0}

\* The values Math.random() contributes to a stream id.
Rnd == {0, 1}

\* Bound on the number of create-stream requests of one run.
MaxCreated == 2

\* Bound on one stream's listeners counter and on the length of its
\* listenersList: join-stream is not taken beyond it.
MaxListeners == 2

\* The sweep removes a stream older than 300000 ms = 5 minutes.
GraceMinutes == 5

\* function generateStreamId()
generateStreamId(t, r) == "stream_" \o ToString(t) \o "_" \o ToString(r)

GenIds == {generateStreamId(t, r) : t \in Times, r \in Rnd}

\* const mockStreams = [...]
mockStreams ==
    [id \in {"stream_1", "stream_2", "stream_3"} |->
        [host |-> CASE id = "stream_1" -> "host_1"
                    [] id = "stream_2" -> "host_2"
                    [] id = "stream_3" -> "host_3",
         listeners |-> CASE id = "stream_1" -> 42
                         [] id = "stream_2" -> 28
                         [] id = "stream_3" -> 15,
         listenersList |-> <<>>,
         startedAt |-> CASE id = "stream_1" -> 0 - 60
                         [] id = "stream_2" -> 0 - 30
                         [] id = "stream_3" -> 0 - 15]]

\* The stream ids a client names in join-stream, leave-stream, end-stream.
TargetIds == GenIds

RoomNames == SSock \cup GenIds \cup DOMAIN mockStreams

Connected == DOMAIN users

\* The stream-list payload: the live streams with their listener counts
\* (isLive is true of every stream in the table).
ActiveStreams(tbl) == [id \in DOMAIN tbl |-> tbl[id].listeners]

\* function broadcastStreamList(): io.emit to every connected socket.
broadcastStreamList(tbl, to) ==
    [ev |-> "stream-list", to |-> to, list |-> ActiveStreams(tbl)]

\* History of the observed listener socket, kept when the run starts from
\* InitObserved.  "none": it has not joined a stream yet.  [room, took]: it
\* has joined room once, and took is what its leave-stream and disconnect
\* events on that room took off the room's count so far (one entry per
\* event).  "clamped": such an event took nothing, the count being 0.
\* "double": its events on the room took 2 off the count it had raised by 1.
\* "void": it joined the room again, or the room was removed.
Observed == "c2"
HistOff  == [st |-> "off"]
NoHist   == [st |-> "none"]
Tracking(h) == h.st = "room"

HistJoin(s, id) ==
    IF s # Observed THEN hist
    ELSE IF hist = NoHist THEN [st |-> "room", room |-> id, took |-> 0]
    ELSE IF Tracking(hist) /\ hist.room = id THEN [st |-> "void"]
    ELSE hist

\* d is what the event of s took off the count of id.
HistDec(h, s, id, d) ==
    IF s = Observed /\ Tracking(h) /\ h.room = id
    THEN IF d = 0 THEN [st |-> "clamped"]
         ELSE IF h.took + d > 1 THEN [st |-> "double"]
         ELSE [h EXCEPT !.took = @ + d]
    ELSE h

\* The streams ids are removed from the table.
HistGone(h, ids) ==
    IF Tracking(h) /\ h.room \in ids THEN [st |-> "void"] ELSE h

\* What the handler that ran last came to, kept when the run starts from
\* Init: a join-stream, leave-stream or end-stream that did not find the
\* stream it names, or any other handler.
EventsOff == [ev |-> "off"]
Handled == [ev |-> "handled"]
NotFound(e) == [ev |-> e, found |-> FALSE]
Note(e) == IF sevent = EventsOff THEN EventsOff ELSE e

\* io.on("connection")
ConnectOut(s) == <<broadcastStreamList(streams, {s})>>

Connect(s) ==
    /\ s \notin Connected
    /\ s \notin gone
    /\ users' = Put(users, s, [type |-> "listener", currentRoom |-> Null, streamId |-> Undefined])
    /\ smembers' = [smembers EXCEPT ![s] = @ \cup {s}]
    /\ sevent' = Note(Handled)
    /\ UNCHANGED <<streams, gone, now, created, hist>>

\* socket.on("create-stream"): r is the draw of Math.random().
CreateStream(s, r) ==
    LET streamId == generateStreamId(now, r)
        streamData == [host |-> s, listeners |-> 0, listenersList |-> <<>>,
                       startedAt |-> now]
    IN
    /\ s \in Connected
    /\ created < MaxCreated
    /\ created' = created + 1
    /\ streams' = Put(streams, streamId, streamData)
    /\ smembers' = [smembers EXCEPT ![streamId] = @ \cup {s}]
    /\ users' = [users EXCEPT ![s] = [type |-> "host", currentRoom |-> streamId,
                                      streamId |-> streamId]]
    /\ hist' = HistGone(hist, {streamId})
    /\ sevent' = Note(Handled)
    /\ UNCHANGED <<gone, now>>

\* socket.on("join-stream"): the table after a join, and the messages the
\* handler emits, in order.
Joined(s, streamId) ==
    [streams EXCEPT ![streamId].listeners = @ + 1,
                    ![streamId].listenersList = Append(@, s)]

\* Mutant of JoinStreamOut: listener-joined carries the count read before
\* the increment.
JoinStreamOutStaleCount(s, streamId) ==
    IF streamId \notin DOMAIN streams
    THEN <<[ev |-> "stream-error", to |-> {s}, message |-> "Stream not found"]>>
    ELSE <<[ev |-> "stream-joined", to |-> {s}, streamId |-> streamId],
           [ev |-> "listener-joined", to |-> smembers[streamId] \cup {s},
            streamId |-> streamId,
            totalListeners |-> streams[streamId].listeners],
           broadcastStreamList(Joined(s, streamId), Connected)>>

JoinStreamOut(s, streamId) ==
    IF streamId \notin DOMAIN streams
    THEN <<[ev |-> "stream-error", to |-> {s}, message |-> "Stream not found"]>>
    ELSE <<[ev |-> "stream-joined", to |-> {s}, streamId |-> streamId],
           [ev |-> "new-listener",
            to |-> IF streams[streamId].host \in DOMAIN smembers
                   THEN smembers[streams[streamId].host] \ {s} ELSE {},
            listenerId |-> s],
           [ev |-> "listener-joined", to |-> smembers[streamId] \cup {s},
            streamId |-> streamId,
            totalListeners |-> Joined(s, streamId)[streamId].listeners],
           broadcastStreamList(Joined(s, streamId), Connected)>>

\* Mutant of JoinStream: the handler binds the socket to the stream it
\* names before it looks the stream up.
JoinStreamBindsFirst(s, streamId) ==
    /\ s \in Connected
    /\ IF streamId \notin DOMAIN streams
       THEN /\ users' = [users EXCEPT ![s].currentRoom = streamId]
            /\ UNCHANGED <<streams, smembers, hist>>
       ELSE /\ streams[streamId].listeners < MaxListeners
            /\ Len(streams[streamId].listenersList) < MaxListeners
            /\ smembers' = [smembers EXCEPT ![streamId] = @ \cup {s}]
            /\ users' = [users EXCEPT ![s].currentRoom = streamId]
            /\ streams' = [streams EXCEPT
                              ![streamId].listeners = @ + 1,
                              ![streamId].listenersList = Append(@, s)]
            /\ hist' = HistJoin(s, streamId)
    /\ sevent' = Note(IF streamId \in DOMAIN streams THEN Handled
                      ELSE NotFound("join-stream"))
    /\ UNCHANGED <<gone, now, created>>

\* Mutant of JoinStream: a lost update.  The handler writes the count back
\* from a value read when the stream had no listener, so that two joins
\* leave the count at 1.
JoinStreamLostUpdate(s, streamId) ==
    /\ s \in Connected
    /\ IF streamId \notin DOMAIN streams
       THEN UNCHANGED <<users, streams, smembers, hist>>
       ELSE /\ streams[streamId].listeners < MaxListeners
            /\ Len(streams[streamId].listenersList) < MaxListeners
            /\ smembers' = [smembers EXCEPT ![streamId] = @ \cup {s}]
            /\ users' = [users EXCEPT ![s].currentRoom = streamId]
            /\ streams' = [streams EXCEPT
                              ![streamId].listeners = 0 + 1,
                              ![streamId].listenersList = Append(@, s)]
            /\ hist' = HistJoin(s, streamId)
    /\ sevent' = Note(IF streamId \in DOMAIN streams THEN Handled
                      ELSE NotFound("join-stream"))
    /\ UNCHANGED <<gone, now, created>>

\* socket.on("join-stream")
JoinStream(s, streamId) ==
    /\ s \in Connected
    /\ IF streamId \notin DOMAIN streams
       THEN UNCHANGED <<users, streams, smembers, hist>>
       ELSE /\ streams[streamId].listeners < MaxListeners
            /\ Len(streams[streamId].listenersList) < MaxListeners
            /\ smembers' = [smembers EXCEPT ![streamId] = @ \cup {s}]
            /\ users' = [users EXCEPT ![s].currentRoom = streamId]
            /\ streams' = [streams EXCEPT
                              ![streamId].listeners = @ + 1,
                              ![streamId].listenersList = Append(@, s)]
            /\ hist' = HistJoin(s, streamId)
    /\ sevent' = Note(IF streamId \in DOMAIN streams THEN Handled
                      ELSE NotFound("join-stream"))
    /\ UNCHANGED <<gone, now, created>>

\* Mutant of Decrement: the count is not clamped at 0.
DecrementUnclamped(n) == n - 1

\* Math.max(0, stream.listeners - 1)
Decrement(n) == IF n - 1 > 0 THEN n - 1 ELSE 0

\* stream.listenersList.filter(listener => listener.id !== socket.id)
Without(list, s) == SelectSeq(list, LAMBDA e : e # s)

\* socket.on("leave-stream"): the table after a leave, and the messages the
\* handler emits, in order.
Left(s, streamId) ==
    [streams EXCEPT ![streamId].listeners = Decrement(@),
                    ![streamId].listenersList = Without(@, s)]

LeaveStreamOut(s, streamId) ==
    IF streamId \notin DOMAIN streams THEN <<>>
    ELSE <<[ev |-> "listener-left", to |-> smembers[streamId] \ {s},
            streamId |-> streamId,
            totalListeners |-> Left(s, streamId)[streamId].listeners],
           broadcastStreamList(Left(s, streamId), Connected)>>

\* socket.on("leave-stream")
LeaveStream(s, streamId) ==
    /\ s \in Connected
    /\ IF streamId \notin DOMAIN streams
       THEN UNCHANGED <<users, streams, smembers, hist>>
       ELSE /\ smembers' = [smembers EXCEPT ![streamId] = @ \ {s}]
            /\ streams' = [streams EXCEPT
                              ![streamId].listeners = Decrement(@),
                              ![streamId].listenersList = Without(@, s)]
            /\ users' = [users EXCEPT ![s].currentRoom = Null]
            /\ hist' = HistDec(hist, s, streamId,
                               streams[streamId].listeners - streams'[streamId].listeners)
    /\ sevent' = Note(IF streamId \in DOMAIN streams THEN Handled
                      ELSE NotFound("leave-stream"))
    /\ UNCHANGED <<gone, now, created>>

\* socket.on("end-stream"): the messages it emits, in order.
EndStreamOut(s, streamId) ==
    IF streamId \notin DOMAIN streams THEN <<>>
    ELSE <<[ev |-> "stream-ended", to |-> smembers[streamId], streamId |-> streamId],
           broadcastStreamList(Del(streams, streamId), Connected)>>

\* Mutant of EndStream: the handler resets the caller's user info before it
\* looks the stream up.
EndStreamResetsFirst(s, streamId) ==
    /\ s \in Connected
    /\ users' = [users EXCEPT ![s] = [type |-> "listener", currentRoom |-> Null,
                                      streamId |-> Undefined]]
    /\ IF streamId \notin DOMAIN streams
       THEN UNCHANGED <<streams, hist>>
       ELSE /\ streams' = Del(streams, streamId)
            /\ hist' = HistGone(hist, {streamId})
    /\ sevent' = Note(IF streamId \in DOMAIN streams THEN Handled
                      ELSE NotFound("end-stream"))
    /\ UNCHANGED <<smembers, gone, now, created>>

\* socket.on("end-stream")
EndStream(s, streamId) ==
    /\ s \in Connected
    /\ IF streamId \notin DOMAIN streams
       THEN UNCHANGED <<users, streams, hist>>
       ELSE /\ streams' = Del(streams, streamId)
            /\ users' = [users EXCEPT ![s] = [type |-> "listener", currentRoom |-> Null,
                                              streamId |-> Undefined]]
            /\ hist' = HistGone(hist, {streamId})
    /\ sevent' = Note(IF streamId \in DOMAIN streams THEN Handled
                      ELSE NotFound("end-stream"))
    /\ UNCHANGED <<smembers, gone, now, created>>

\* socket.on("disconnect"), the host branch: the stream it removes, if any.
Hosting(s) ==
    /\ users[s].type = "host"
    /\ IdTruthy(users[s].streamId)
    /\ users[s].streamId \in DOMAIN streams

AfterHostBranch(s) == IF Hosting(s) THEN Del(streams, users[s].streamId) ELSE streams

\* socket.on("disconnect"), the listener branch: it looks currentRoom up in
\* the table the host branch has left.
Listening(s) ==
    /\ IdTruthy(users[s].currentRoom)
    /\ users[s].currentRoom \in DOMAIN AfterHostBranch(s)

AfterListenerBranch(s) ==
    IF Listening(s)
    THEN [AfterHostBranch(s) EXCEPT
            ![users[s].currentRoom].listeners = Decrement(@),
            ![users[s].currentRoom].listenersList = Without(@, s)]
    ELSE AfterHostBranch(s)

\* socket.on("disconnect"): the messages it emits, in order.  socket.io has
\* taken the socket out of every room before the handler runs.
DisconnectOut(s) ==
    (IF Hosting(s)
     THEN <<[ev |-> "stream-ended", to |-> smembers[users[s].streamId] \ {s},
             streamId |-> users[s].streamId],
            broadcastStreamList(AfterHostBranch(s), Connected \ {s})>>
     ELSE <<>>)
    \o
    (IF Listening(s)
     THEN <<[ev |-> "listener-left", to |-> smembers[users[s].currentRoom] \ {s},
             streamId |-> users[s].currentRoom,
             totalListeners |-> AfterListenerBranch(s)[users[s].currentRoom].listeners],
            broadcastStreamList(AfterListenerBranch(s), Connected \ {s})>>
     ELSE <<>>)

\* socket.on("disconnect")
Disconnect(s) ==
    /\ s \in Connected
    /\ smembers' = [r \in DOMAIN smembers |-> smembers[r] \ {s}]
    /\ streams' = AfterListenerBranch(s)
    /\ users' = Del(users, s)
    /\ gone' = gone \cup {s}
    /\ hist' = LET h1 == IF Listening(s)
                         THEN HistDec(hist, s, users[s].currentRoom,
                                      AfterHostBranch(s)[users[s].currentRoom].listeners
                                        - AfterListenerBranch(s)[users[s].currentRoom].listeners)
                         ELSE hist
               IN IF Hosting(s) THEN HistGone(h1, {users[s].streamId}) ELSE h1
    /\ sevent' = Note(Handled)
    /\ UNCHANGED <<now, created>>

\* socket.on("request-stream-list"): the message it emits.
RequestStreamListOut(s) == <<broadcastStreamList(streams, {s})>>

\* socket.on("request-stream-list")
RequestStreamList(s) ==
    /\ s \in Connected
    /\ sevent' = Note(Handled)
    /\ UNCHANGED <<users, streams, smembers, gone, now, created, hist>>

\* The payloads of the signal event (WebRTC offers, answers, candidates).
Signals == {"offer", "candidate"}

\* Mutant of SignalOut: the signal goes to every other connected socket.
SignalOutBroadcast(s, to, signal) ==
    <<[ev |-> "signal", to |-> Connected \ {s}, from |-> s, signal |-> signal]>>

\* socket.on("signal"): socket.to(to).emit reaches the sockets of the room
\* named to, the sender excepted.
SignalOut(s, to, signal) ==
    <<[ev |-> "signal",
       to |-> (IF to \in DOMAIN smembers THEN smembers[to] ELSE {}) \ {s},
       from |-> s, signal |-> signal]>>

\* What a signal handler came to: whether its message reached a socket.
Signalled(out) == [ev |-> "signal", delivered |-> out[1].to # {}]

Signal(s, to, signal) ==
    /\ s \in Connected
    /\ sevent' = Note(Signalled(SignalOut(s, to, signal)))
    /\ UNCHANGED <<users, streams, smembers, gone, now, created, hist>>

\* Mutant of Swept: the timer deletes nothing.
SweptNothing(tbl, t) == {}

\* Mutant of Swept: the test of the stream's age is missing.
SweptAnyAge(tbl, t) == {id \in DOMAIN tbl : tbl[id].listeners = 0}

\* The cleanup timer (setInterval, 60000 ms) that every connection starts:
\* the streams it deletes when it fires at time t.
Swept(tbl, t) ==
    {id \in DOMAIN tbl : tbl[id].listeners = 0 /\ t - tbl[id].startedAt > GraceMinutes}

\* The message a run of the timer emits: broadcastStreamList() when it has
\* deleted a stream (cleaned > 0).
CleanupOut ==
    IF Swept(streams, now) # {}
    THEN <<broadcastStreamList([id \in DOMAIN streams \ Swept(streams, now) |-> streams[id]],
                               Connected)>>
    ELSE <<>>

\* What a run of the timer came to when it deleted a stream (cleaned > 0).
Cleaned(n) == IF n > 0 THEN [ev |-> "cleanup", cleaned |-> n] ELSE Handled

Cleanup ==
    /\ Connected \cup gone # {}
    /\ streams' = [id \in DOMAIN streams \ Swept(streams, now) |-> streams[id]]
    /\ hist' = HistGone(hist, Swept(streams, now))
    /\ sevent' = Note(Cleaned(Cardinality(Swept(streams, now))))
    /\ UNCHANGED <<users, smembers, gone, now, created>>

\* Time passes.
Tick ==
    /\ now + TickMinutes <= MaxNow
    /\ now' = now + TickMinutes
    /\ UNCHANGED <<users, streams, smembers, gone, created, hist, sevent>>

(***************************************************************************)
(* Stream server with uuid ids (src/unnamed/part_000, lines 124-541)       *)
(***************************************************************************)

\* The sockets that connect to this server; the studio socket creates
\* streams, the dashboard sockets join and leave them.
USock == {"v1", "v2", "v3"}
UProducers == {"v1"}
UListeners == {"v2", "v3"}

\* Bound on the number of streams created in one run; uuidv4() gives the
\* n-th stream an id no earlier stream has.
MaxUCreated == 2
uuidv4(n) == "uuid_" \o ToString(n)
UIds == {uuidv4(n) : n \in 1..MaxUCreated}
URoomNames == USock \cup UIds

\* data.maxListeners || 1000: a cap of 0 (or none) in the request becomes
\* the default.
DefaultCap == 1000
CapInputs == {0, 1, 2}
CapOf(x) == IF x = 0 THEN DefaultCap ELSE x

\* Bound on one stream's listeners counter and on the length of its
\* listenersList: join-stream is not taken beyond it.
MaxUListeners == 2

Rejected(m) == [ev |-> "stream-error", message |-> m]

\* io.on("connection")
UConnect(s) ==
    /\ s \notin DOMAIN uusers
    /\ s \notin ugone
    /\ uusers' = Put(uusers, s, [type |-> "listener", currentRoom |-> Null,
                                 streamId |-> Undefined])
    /\ umembers' = [umembers EXCEPT ![s] = @ \cup {s}]
    /\ uevent' = Handled
    /\ UNCHANGED <<ustreams, ugone, ucreated>>

\* socket.on("create-stream"): cap is data.maxListeners, priv data.isPrivate.
UCreateStream(s, cap, priv) ==
    LET streamId == uuidv4(ucreated + 1)
        streamData == [host |-> s, listeners |-> 0, maxListeners |-> CapOf(cap),
                       isPrivate |-> priv, listenersList |-> <<>>]
    IN
    /\ s \in DOMAIN uusers
    /\ ucreated < MaxUCreated
    /\ ucreated' = ucreated + 1
    /\ ustreams' = Put(ustreams, streamId, streamData)
    /\ umembers' = [umembers EXCEPT ![streamId] = @ \cup {s}]
    /\ uusers' = [uusers EXCEPT ![s] = [type |-> "host", currentRoom |-> streamId,
                                        streamId |-> streamId]]
    /\ uevent' = Handled
    /\ UNCHANGED ugone

\* Mutant of UJoinCheck: the check for a full stream is missing.
UJoinCheckNoCap(streamId, pwOk) ==
    IF streamId \notin DOMAIN ustreams THEN Rejected("Stream not found")
    ELSE IF ustreams[streamId].isPrivate /\ ~pwOk THEN Rejected("Incorrect password")
    ELSE Handled

\* The three checks of socket.on("join-stream"), in order: the error the
\* request is answered with, or Handled.  pwOk: data.password is the
\* stream's password.
UJoinCheck(streamId, pwOk) ==
    IF streamId \notin DOMAIN ustreams THEN Rejected("Stream not found")
    ELSE IF ustreams[streamId].isPrivate /\ ~pwOk THEN Rejected("Incorrect password")
    ELSE IF ustreams[streamId].listeners >= ustreams[streamId].maxListeners
         THEN Rejected("Stream is full")
    ELSE Handled

\* socket.on("join-stream")
UJoinStream(s, streamId, pwOk) ==
    /\ s \in DOMAIN uusers
    /\ uevent' = UJoinCheck(streamId, pwOk)
    /\ IF UJoinCheck(streamId, pwOk) # Handled
       THEN UNCHANGED <<uusers, ustreams, umembers>>
       ELSE /\ ustreams[streamId].listeners < MaxUListeners
            /\ Len(ustreams[streamId].listenersList) < MaxUListeners
            /\ umembers' = [umembers EXCEPT ![streamId] = @ \cup {s}]
            /\ uusers' = [uusers EXCEPT ![s].currentRoom = streamId]
            /\ ustreams' = [ustreams EXCEPT
                               ![streamId].listeners = @ + 1,
                               ![streamId].listenersList = Append(@, s)]
    /\ UNCHANGED <<ugone, ucreated>>

\* socket.on("leave-stream")
ULeaveStream(s, streamId) ==
    /\ s \in DOMAIN uusers
    /\ IF streamId \notin DOMAIN ustreams
       THEN /\ uevent' = NotFound("leave-stream")
            /\ UNCHANGED <<uusers, ustreams, umembers>>
       ELSE /\ uevent' = Handled
            /\ umembers' = [umembers EXCEPT ![streamId] = @ \ {s}]
            /\ ustreams' = [ustreams EXCEPT
                               ![streamId].listeners = Decrement(@),
                               ![streamId].listenersList = Without(@, s)]
            /\ uusers' = [uusers EXCEPT ![s].currentRoom = Null]
    /\ UNCHANGED <<ugone, ucreated>>

\* socket.on("end-stream")
UEndStream(s, streamId) ==
    /\ s \in DOMAIN uusers
    /\ IF streamId \notin DOMAIN ustreams
       THEN /\ uevent' = NotFound("end-stream")
            /\ UNCHANGED <<uusers, ustreams>>
       ELSE /\ uevent' = Handled
            /\ ustreams' = Del(ustreams, streamId)
            /\ uusers' = [uusers EXCEPT ![s] = [type |-> "listener",
                                                currentRoom |-> Null,
                                                streamId |-> Undefined]]
    /\ UNCHANGED <<umembers, ugone, ucreated>>

\* socket.on("disconnect"): the host branch, then the listener branch on
\* the table the host branch has left.
UAfterHostBranch(s) ==
    IF /\ uusers[s].type = "host"
       /\ IdTruthy(uusers[s].streamId)
       /\ uusers[s].streamId \in DOMAIN ustreams
    THEN Del(ustreams, uusers[s].streamId)
    ELSE ustreams

UAfterListenerBranch(s) ==
    IF /\ IdTruthy(uusers[s].currentRoom)
       /\ uusers[s].currentRoom \in DOMAIN UAfterHostBranch(s)
    THEN [UAfterHostBranch(s) EXCEPT
            ![uusers[s].currentRoom].listeners = Decrement(@),
            ![uusers[s].currentRoom].listenersList = Without(@, s)]
    ELSE UAfterHostBranch(s)

UDisconnect(s) ==
    /\ s \in DOMAIN uusers
    /\ umembers' = [r \in DOMAIN umembers |-> umembers[r] \ {s}]
    /\ ustreams' = UAfterListenerBranch(s)
    /\ uusers' = Del(uusers, s)
    /\ ugone' = ugone \cup {s}
    /\ uevent' = Handled
    /\ UNCHANGED ucreated

\* The cleanup timer (setInterval, 60000 ms) that every connection starts:
\* it removes the streams with no listener that started more than 300000 ms
\* ago.  This server's clock is not part of the state: old is the set of
\* streams that have reached that age when the timer fires.
UCleanup(old) ==
    /\ DOMAIN uusers \cup ugone # {}
    /\ old # {}
    /\ \A id \in old : ustreams[id].listeners = 0
    /\ ustreams' = [id \in DOMAIN ustreams \ old |-> ustreams[id]]
    /\ uevent' = Handled
    /\ UNCHANGED <<uusers, umembers, ugone, ucreated>>

\* data.updates of an update-stream request: the fields it sets.
Updates == {[isPrivate |-> TRUE], [maxListeners |-> 2]}

\* Object.assign(stream, updates)
Assign(obj, updates) ==
    [f \in DOMAIN obj \cup DOMAIN updates |->
        IF f \in DOMAIN updates THEN updates[f] ELSE obj[f]]

\* Mutant of UUpdateAllowed: the check of the host is missing.
UUpdateAllowedAnyone(s, streamId) == streamId \in DOMAIN ustreams

\* The two early returns of socket.on("update-stream"): the stream is in
\* the table and the caller is its host.
UUpdateAllowed(s, streamId) ==
    /\ streamId \in DOMAIN ustreams
    /\ ustreams[streamId].host = s

\* socket.on("update-stream"): the table after the update, and the messages
\* the handler emits, in order.
UUpdated(streamId, updates) ==
    [ustreams EXCEPT ![streamId] = Assign(@, updates)]

UUpdateStreamOut(s, streamId, updates) ==
    IF ~UUpdateAllowed(s, streamId) THEN <<>>
    ELSE <<[ev |-> "stream-updated", to |-> umembers[streamId],
            streamId |-> streamId, updates |-> updates],
           [ev |-> "stream-list", to |-> DOMAIN uusers,
            list |-> UUpdated(streamId, updates)]>>

\* What an update-stream handler came to: whether it updated the stream.
UpdateDone(done) == [ev |-> "update-stream", done |-> done]

\* socket.on("update-stream")
UUpdateStream(s, streamId, updates) ==
    /\ s \in DOMAIN uusers
    /\ uevent' = UpdateDone(UUpdateAllowed(s, streamId))
    /\ IF UUpdateAllowed(s, streamId)
       THEN ustreams' = UUpdated(streamId, updates)
       ELSE UNCHANGED ustreams
    /\ UNCHANGED <<uusers, umembers, ugone, ucreated>>

(***************************************************************************)
(* Global chat server (src/unnamed/part_001)                               *)
(***************************************************************************)

\* The sockets that connect to the chat server.  Every socket joins the
\* room GLOBAL_CHAT_ROOM when it connects, so the room's members are the
\* open sockets.
GSock == {"g1", "g2"}

\* if (chatHistory.length > 100) chatHistory.shift()
HistoryLimit == 100

\* socket.emit("chat-history", chatHistory.slice(-50))
ReplaySize == 50

\* Bound on the number of chat events of one run.
MaxPushed == 102

\* The peerId a client sends with host-ready: an id, or null.
PeerIds == {"peer", Null}

\* data.msg of a chatMessage, and message.msg.trim().
MsgInputs == {"", " ", "hi"}
trim(m) == IF m \in {"", " "} THEN "" ELSE m

\* A message is kept in chatHistory as its number.  chatHistory.push(m)
\* followed by the shift of the oldest message when more than HistoryLimit
\* are kept, and chatHistory.push(m) alone.
PushShift(h, m) ==
    IF Len(Append(h, m)) > HistoryLimit THEN Tail(Append(h, m)) ELSE Append(h, m)

Push(h, m) == Append(h, m)

\* chatHistory.slice(0, 50): the oldest entries in place of the newest.
ReplayFirst(h) ==
    IF Len(h) <= ReplaySize THEN h ELSE SubSeq(h, 1, ReplaySize)

\* chatHistory.slice(-50)
Replay(h) ==
    IF Len(h) <= ReplaySize THEN h ELSE SubSeq(h, Len(h) - ReplaySize + 1, Len(h))

\* A message as it is emitted to GLOBAL_CHAT_ROOM: stored says whether chat
\* event m was in the history h of that moment.
Emitted(ev, type, m, h) ==
    [ev |-> ev, type |-> type, msg |-> m,
     stored |-> \E i \in DOMAIN h : h[i] = m]

\* io.on("connection"): the messages sent to the socket.
GConnectOut(s) == <<[ev |-> "chat-history", to |-> {s}, list |-> Replay(chatHistory)]>>

GConnect(s) ==
    /\ chatConn[s] = "idle"
    /\ chatConn' = [chatConn EXCEPT ![s] = "open"]
    /\ chatSent' = GConnectOut(s)
    /\ UNCHANGED <<chatHistory, onlineUsers, hostPeerId, hostSocketId, pushed>>

\* socket.on("user-join"): isHost is userData.isHost || false.
UserJoin(s, isHost) ==
    LET joinMsg == pushed + 1
        h1 == PushShift(chatHistory, joinMsg)
    IN
    /\ chatConn[s] = "open"
    /\ pushed < MaxPushed
    /\ onlineUsers' = Put(onlineUsers, s, [name |-> "user", isHost |-> isHost,
                                           role |-> "listener"])
    /\ chatHistory' = h1
    /\ chatSent' = <<Emitted("chatMessage", "system", joinMsg, h1)>>
    /\ pushed' = pushed + 1
    /\ UNCHANGED <<chatConn, hostPeerId, hostSocketId>>

\* socket.on("chatMessage"): msg is data.msg || "".
ChatMessage(s, msg) ==
    LET message == pushed + 1
        isHost == IF s \in DOMAIN onlineUsers THEN onlineUsers[s].isHost ELSE FALSE
        h1 == PushShift(chatHistory, message)
    IN
    /\ chatConn[s] = "open"
    /\ IF trim(msg) = ""
       THEN /\ chatSent' = <<>>
            /\ UNCHANGED <<chatHistory, pushed>>
       ELSE /\ pushed < MaxPushed
            /\ chatHistory' = h1
            /\ chatSent' = <<Emitted("chatMessage", IF isHost THEN "host" ELSE "user",
                                     message, h1)>>
            /\ pushed' = pushed + 1
    /\ UNCHANGED <<chatConn, onlineUsers, hostPeerId, hostSocketId>>

\* socket.on("sendGift"): the gift is emitted, then its announcement is
\* pushed and emitted; both are chat event pushed + 1.
SendGift(s) ==
    LET gift == pushed + 1
        h1 == PushShift(chatHistory, gift)
    IN
    /\ chatConn[s] = "open"
    /\ pushed < MaxPushed
    /\ chatHistory' = h1
    /\ chatSent' = <<Emitted("giftReceived", "gift", gift, chatHistory),
                     Emitted("chatMessage", "gift-announce", gift, h1)>>
    /\ pushed' = pushed + 1
    /\ UNCHANGED <<chatConn, onlineUsers, hostPeerId, hostSocketId>>

\* socket.on("host-ready")
HostReady(s, peerId) ==
    LET liveMsg == pushed + 1
        h1 == Push(chatHistory, liveMsg)
    IN
    /\ chatConn[s] = "open"
    /\ pushed < MaxPushed
    /\ hostPeerId' = peerId
    /\ hostSocketId' = s
    /\ onlineUsers' = Put(onlineUsers, s, [name |-> "HOST", isHost |-> TRUE,
                                           role |-> "host"])
    /\ chatHistory' = h1
    /\ chatSent' = <<Emitted("chatMessage", "system", liveMsg, h1)>>
    /\ pushed' = pushed + 1
    /\ UNCHANGED chatConn

\* socket.on("disconnect") without the reset of the host fields.
GDisconnectKeepsHost(s) ==
    LET leaveMsg == pushed + 1
        offlineMsg == pushed + 2
        h1 == Push(chatHistory, leaveMsg)
        h2 == Push(h1, offlineMsg)
    IN
    /\ chatConn[s] = "open"
    /\ chatConn' = [chatConn EXCEPT ![s] = "closed"]
    /\ IF s \notin DOMAIN onlineUsers
       THEN /\ chatSent' = <<>>
            /\ UNCHANGED <<chatHistory, onlineUsers, hostPeerId, hostSocketId, pushed>>
       ELSE /\ onlineUsers' = Del(onlineUsers, s)
            /\ UNCHANGED <<hostPeerId, hostSocketId>>
            /\ IF s = hostSocketId
               THEN /\ pushed + 2 <= MaxPushed
                    /\ chatHistory' = h2
                    /\ chatSent' = <<Emitted("chatMessage", "system", leaveMsg, h1),
                                     Emitted("chatMessage", "system", offlineMsg, h2)>>
                    /\ pushed' = pushed + 2
               ELSE /\ pushed < MaxPushed
                    /\ chatHistory' = h1
                    /\ chatSent' = <<Emitted("chatMessage", "system", leaveMsg, h1)>>
                    /\ pushed' = pushed + 1

\* socket.on("disconnect")
GDisconnect(s) ==
    LET leaveMsg == pushed + 1
        offlineMsg == pushed + 2
        h1 == Push(chatHistory, leaveMsg)
        h2 == Push(h1, offlineMsg)
    IN
    /\ chatConn[s] = "open"
    /\ chatConn' = [chatConn EXCEPT ![s] = "closed"]
    /\ IF s \notin DOMAIN onlineUsers
       THEN /\ chatSent' = <<>>
            /\ UNCHANGED <<chatHistory, onlineUsers, hostPeerId, hostSocketId, pushed>>
       ELSE /\ onlineUsers' = Del(onlineUsers, s)
            /\ IF s = hostSocketId
               THEN /\ pushed + 2 <= MaxPushed
                    /\ hostPeerId' = Null
                    /\ hostSocketId' = Null
                    /\ chatHistory' = h2
                    /\ chatSent' = <<Emitted("chatMessage", "system", leaveMsg, h1),
                                     Emitted("chatMessage", "system", offlineMsg, h2)>>
                    /\ pushed' = pushed + 2
               ELSE /\ pushed < MaxPushed
                    /\ chatHistory' = h1
                    /\ chatSent' = <<Emitted("chatMessage", "system", leaveMsg, h1)>>
                    /\ pushed' = pushed + 1
                    /\ UNCHANGED <<hostPeerId, hostSocketId>>

ChatInit ==
    /\ chatConn = [s \in GSock |-> "idle"]
    /\ chatHistory = <<>>
    /\ onlineUsers = [x \in {} |-> 0]
    /\ hostPeerId = Null
    /\ hostSocketId = Null
    /\ chatSent = <<>>
    /\ pushed = 0

UuidInit ==
    /\ uusers = [x \in {} |-> 0]
    /\ ustreams = [x \in {} |-> 0]
    /\ umembers = [r \in URoomNames |-> {}]
    /\ ugone = {}
    /\ ucreated = 0
    /\ uevent = NoEvent

RelayInit ==
    /\ rconn = [s \in RSock |-> "idle"]
    /\ rooms = [x \in {} |-> 0]
    /\ audioHeaders = [x \in {} |-> 0]
    /\ rmembers = [r \in RSock |-> {}]
    /\ revent = NoEvent
    /\ rsent = {}
    /\ firstSub = [r \in Hosts |-> NoChunk]
    /\ firstHost = [r \in Hosts |-> NoChunk]
    /\ joinHdr = [c \in RSock |-> [r \in Hosts |-> NoChunk]]
    /\ firstRecv = [c \in RSock |-> [r \in Hosts |-> NoChunk]]

StreamInit ==
    /\ users = [x \in {} |-> 0]
    /\ streams = mockStreams
    /\ smembers = [r \in RoomNames |-> {}]
    /\ gone = {}
    /\ now = 0
    /\ created = 0
    /\ hist = HistOff
    /\ sevent = NoEvent

Init == RelayInit /\ StreamInit /\ UuidInit /\ ChatInit

\* The same initial state, with the history of the observed socket kept.
InitObserved ==
    /\ RelayInit
    /\ UuidInit
    /\ ChatInit
    /\ users = [x \in {} |-> 0]
    /\ streams = mockStreams
    /\ smembers = [r \in RoomNames |-> {}]
    /\ gone = {}
    /\ now = 0
    /\ created = 0
    /\ hist = NoHist
    /\ sevent = EventsOff

RelayNext ==
    \/ \E s \in RSock : RConnect(s) /\ UNCHANGED <<streamVars, uuidVars, chatVars>>
    \/ \E s \in Hosts : Broadcaster(s) /\ UNCHANGED <<streamVars, uuidVars, chatVars>>
    \/ \E s \in Hosts : StopBroadcast(s) /\ UNCHANGED <<streamVars, uuidVars, chatVars>>
    \/ \E s \in RSock, r \in Hosts, ch \in Chunks, got \in SUBSET RSock :
          AudioStream(s, r, ch, got) /\ UNCHANGED <<streamVars, uuidVars, chatVars>>
    \/ \E s \in RSock, r \in Hosts : JoinEvent(s, r) /\ UNCHANGED <<streamVars, uuidVars, chatVars>>
    \/ \E s \in RSock : RDisconnect(s) /\ UNCHANGED <<streamVars, uuidVars, chatVars>>

SpecRelay == Init /\ [][RelayNext]_vars

StreamNext ==
    \/ \E s \in SSock : Connect(s) /\ UNCHANGED <<relayVars, uuidVars, chatVars>>
    \/ \E s \in Producers, r \in Rnd : CreateStream(s, r) /\ UNCHANGED <<relayVars, uuidVars, chatVars>>
    \/ \E s \in Listeners, id \in TargetIds : JoinStream(s, id) /\ UNCHANGED <<relayVars, uuidVars, chatVars>>
    \/ \E s \in Listeners, id \in TargetIds : LeaveStream(s, id) /\ UNCHANGED <<relayVars, uuidVars, chatVars>>
    \/ \E s \in SSock, id \in TargetIds : EndStream(s, id) /\ UNCHANGED <<relayVars, uuidVars, chatVars>>
    \/ \E s \in SSock : Disconnect(s) /\ UNCHANGED <<relayVars, uuidVars, chatVars>>
    \/ \E s \in SSock : RequestStreamList(s) /\ UNCHANGED <<relayVars, uuidVars, chatVars>>
    \/ \E s \in SSock, to \in SSock, signal \in Signals :
          Signal(s, to, signal) /\ UNCHANGED <<relayVars, uuidVars, chatVars>>
    \/ Cleanup /\ UNCHANGED <<relayVars, uuidVars, chatVars>>
    \/ Tick /\ UNCHANGED <<relayVars, uuidVars, chatVars>>

SpecStream == Init /\ [][StreamNext]_vars

SpecObserved == InitObserved /\ [][StreamNext]_vars

\* The stream server with a fair cleanup timer: the first connection starts
\* the setInterval and nothing clears it, so the timer keeps firing.  The
\* run is started with the history variables off.
InitUnobserved ==
    /\ RelayInit
    /\ UuidInit
    /\ ChatInit
    /\ users = [x \in {} |-> 0]
    /\ streams = mockStreams
    /\ smembers = [r \in RoomNames |-> {}]
    /\ gone = {}
    /\ now = 0
    /\ created = 0
    /\ hist = HistOff
    /\ sevent = EventsOff

SpecStreamFair == InitUnobserved /\ [][StreamNext]_vars /\ WF_streamVars(Cleanup)

UuidNext ==
    \/ \E s \in USock : UConnect(s) /\ UNCHANGED <<relayVars, streamVars, chatVars>>
    \/ \E s \in UProducers, cap \in CapInputs, priv \in BOOLEAN :
          UCreateStream(s, cap, priv) /\ UNCHANGED <<relayVars, streamVars, chatVars>>
    \/ \E s \in UListeners, id \in UIds, pwOk \in BOOLEAN :
          UJoinStream(s, id, pwOk) /\ UNCHANGED <<relayVars, streamVars, chatVars>>
    \/ \E s \in UListeners, id \in UIds :
          ULeaveStream(s, id) /\ UNCHANGED <<relayVars, streamVars, chatVars>>
    \/ \E s \in USock, id \in UIds :
          UEndStream(s, id) /\ UNCHANGED <<relayVars, streamVars, chatVars>>
    \/ \E s \in USock : UDisconnect(s) /\ UNCHANGED <<relayVars, streamVars, chatVars>>
    \/ \E old \in SUBSET DOMAIN ustreams :
          UCleanup(old) /\ UNCHANGED <<relayVars, streamVars, chatVars>>

SpecUuid == Init /\ [][UuidNext]_vars

\* The same server with its update-stream handler.
UuidUpdateNext ==
    \/ UuidNext
    \/ \E s \in USock, id \in UIds, updates \in Updates :
          UUpdateStream(s, id, updates) /\ UNCHANGED <<relayVars, streamVars, chatVars>>

SpecUuidUpdate == Init /\ [][UuidUpdateNext]_vars

ChatNext ==
    \/ \E s \in GSock : GConnect(s) /\ UNCHANGED <<relayVars, streamVars, uuidVars>>
    \/ \E s \in GSock, isHost \in BOOLEAN :
          UserJoin(s, isHost) /\ UNCHANGED <<relayVars, streamVars, uuidVars>>
    \/ \E s \in GSock, msg \in MsgInputs :
          ChatMessage(s, msg) /\ UNCHANGED <<relayVars, streamVars, uuidVars>>
    \/ \E s \in GSock : SendGift(s) /\ UNCHANGED <<relayVars, streamVars, uuidVars>>
    \/ \E s \in GSock, peerId \in PeerIds :
          HostReady(s, peerId) /\ UNCHANGED <<relayVars, streamVars, uuidVars>>
    \/ \E s \in GSock : GDisconnect(s) /\ UNCHANGED <<relayVars, streamVars, uuidVars>>

SpecChat == Init /\ [][ChatNext]_vars

(***************************************************************************)
(* Claims on the audio relay engine (checked under SpecRelay)              *)
(***************************************************************************)

\* C1. Cache-then-live ordering: a consumer (a socket other than the room's
\* host) whose joinEvent came after the producer's first chunk was submitted
\* has that chunk as the first chunk delivered to it since the join.  Stated
\* for a binary (truthy) first chunk of the producer.
CacheThenLiveOrdering ==
    \A c \in RSock, r \in Hosts :
        (c # r /\ r \in DOMAIN rooms /\ joinHdr[c][r] # NoChunk /\ Truthy(joinHdr[c][r]))
            => firstRecv[c][r] = joinHdr[c][r]

\* C5. Unauthorized chunk submission is rejected: the handler of an
\* audioStream sent by a socket other than the named room's host delivers no
\* packet and leaves the header cache as it was.
UnauthorizedChunkRejected ==
    [][(revent'.ev = "audioStream" /\ revent'.sock # revent'.room)
          => (rsent' = {} /\ audioHeaders' = audioHeaders)]_vars

\* C6. The cached header is set once per session: while the room exists, the
\* cache holds the first chunk submitted since the room was created.
CacheSetOnce ==
    \A r \in DOMAIN rooms :
        firstSub[r] # NoChunk => Header(r) = firstSub[r]

(***************************************************************************)
(* Claims on the stream server (checked under SpecStream, and under        *)
(* SpecObserved where the history of the observed socket is used)          *)
(***************************************************************************)

\* The streams made by create-stream (the others are the mock streams).
Created == DOMAIN streams \ DOMAIN mockStreams

\* The consumers bound to a stream: the connected users whose currentRoom is
\* the stream and who are not its host.
Bound(id) == {u \in Connected : users[u].currentRoom = id /\ u # streams[id].host}

\* C2. Count invariant: the listener count of every stream made by
\* create-stream equals the number of consumers bound to it.
CountInvariant ==
    \A id \in Created : streams[id].listeners = Cardinality(Bound(id))

\* C3. Single-producer invariant: the host of every stream made by
\* create-stream is a connected socket.
SingleProducer ==
    \A id \in Created : streams[id].host \in Connected

\* The recipients of the stream-ended messages for id among the messages msgs.
EndedTo(msgs, id) ==
    UNION {msgs[i].to : i \in {j \in DOMAIN msgs :
                                 msgs[j].ev = "stream-ended" /\ msgs[j].streamId = id}}

\* The stream-list messages among msgs.
Lists(msgs) == {msgs[i] : i \in {j \in DOMAIN msgs : msgs[j].ev = "stream-list"}}

\* C4. Producer disconnect tears down the session: the disconnect handler of
\* the host of stream id removes id from the table, sends stream-ended to
\* every consumer bound to id, and the stream lists it sends are without id.
ProducerDisconnectTearsDown ==
    [][\A s \in SSock : \A id \in Created :
          (Disconnect(s) /\ streams[id].host = s)
             => /\ id \notin DOMAIN streams'
                /\ Bound(id) \subseteq EndedTo(DisconnectOut(s), id)
                /\ \A m \in Lists(DisconnectOut(s)) : id \notin DOMAIN m.list]_vars

\* The socket is not joined to the stream: not bound to it, not in its
\* listenersList, not in its socket.io room.
NotJoined(s, id) ==
    /\ users[s].currentRoom # id
    /\ \A i \in DOMAIN streams[id].listenersList : streams[id].listenersList[i] # s
    /\ s \notin smembers[id]

\* C7. Idempotent leave: a leave-stream of a socket that is not joined to
\* the stream (as after a first leave-stream) changes no stream.
IdempotentLeave ==
    [][\A s \in Listeners : \A id \in Created :
          (LeaveStream(s, id) /\ NotJoined(s, id)) => streams' = streams]_vars

\* C8. The listener count of every stream is never negative.
ListenersNonNegative ==
    \A id \in DOMAIN streams : streams[id].listeners >= 0

\* C8, witness: a leave-stream or disconnect of the observed socket found
\* the count of its stream at 0 and left it there.
ClampedAtZero ==
    /\ hist.st = "clamped"
    /\ \E id \in Created : streams[id].listeners = 0

\* C9. No double decrement: the leave-stream and disconnect events of a
\* socket that joined a stream once take no more than 1 off its count.
NoDoubleDecrement == hist.st # "double"

\* C10. Session destruction unbinds all consumers: when the end-stream or
\* the disconnect of the host of a stream removes the stream, no connected
\* user stays bound to it.
DestroyUnbindsAll ==
    [][\A s \in SSock : \A id \in Created :
          ( /\ EndStream(s, id) \/ Disconnect(s)
            /\ streams[id].host = s
            /\ id \notin DOMAIN streams' )
             => \A u \in DOMAIN users' : users'[u].currentRoom # id]_vars

(***************************************************************************)
(* Further claims on the audio relay engine (checked under SpecRelay)      *)
(***************************************************************************)

\* The audioBuffer packets a submission of chunk puts on the wire when it
\* reaches the sockets of got.
LivePackets(roomID, chunk, got) ==
    {[to |-> c, room |-> roomID, chunk |-> chunk, live |-> TRUE] : c \in got}

\* C11. Scenario B: a joinEvent on a room whose host has not submitted a
\* chunk yet sends the joining socket no audioBuffer; the first chunk the
\* host then submits becomes the cached header, and it goes to the room's
\* members once, as a live packet.
ScenarioB ==
    [][ /\ \A c \in RSock : \A r \in Hosts :
              (JoinEvent(c, r) /\ r \in DOMAIN rooms /\ firstHost[r] = NoChunk)
                 => rsent' = {}
        /\ \A r \in Hosts : \A ch \in Chunks : \A got \in SUBSET RSock :
              (AudioStream(r, r, ch, got) /\ r \in DOMAIN rooms /\ firstHost[r] = NoChunk)
                 => /\ audioHeaders'[r] = ch
                    /\ rsent' = LivePackets(r, ch, got) ]_vars

\* C12. The cached chunk is cleared when the session is destroyed: a header
\* is cached only for a room that is in the room table, and as long as no
\* chunk has been submitted for the room's current session its cache is
\* empty (so a joinEvent is not answered with an earlier session's header).
CacheClearedWithSession ==
    /\ DOMAIN audioHeaders \subseteq DOMAIN rooms
    /\ \A r \in Hosts : firstSub[r] = NoChunk => ~Truthy(Header(r))

\* C12, witness: the handler that ran last (stopBroadcast, disconnect, or a
\* broadcaster that starts the next session) found a cached header for its
\* room and the cache of the room is now empty.
HeaderClearedByHandler ==
    /\ revent.ev \in {"broadcaster", "stopBroadcast", "disconnect"}
    /\ revent.cleared
    /\ ~Truthy(Header(revent.sock))

\* C13. Attaching a consumer and sending it the cached header are one step
\* relative to chunk submission: the first socket to join a session that
\* has a cached header has been delivered no live chunk of that session
\* before the header its joinEvent sends.
HeaderBeforeLive ==
    [][\A c \in RSock : \A r \in Hosts :
          ( /\ JoinEvent(c, r)
            /\ c # r
            /\ r \in DOMAIN rooms
            /\ rooms[r].listeners = 0
            /\ Truthy(Header(r)) )
             => firstRecv[c][r] = NoChunk]_vars

\* C23. Per-consumer chunk order: a live chunk reaches a consumer in the
\* step in which it is submitted, at most once, so the live chunks a
\* consumer of a room gets are a subsequence of the submissions to the room
\* in their order; they are a subsequence of the submissions of the room's
\* producer when every live packet that goes to a consumer (a socket other
\* than the room's host) carries a chunk the producer submitted.
LiveChunksFromProducer ==
    revent.ev = "audioStream"
        => \A p \in rsent : /\ p.live
                            /\ p.room = revent.room
                            /\ p.to # p.room => revent.sock = p.room

\* The live packets of the last submission that went to socket c.
LiveTo(c) == {p \in rsent : p.to = c /\ p.live}

\* C24. Drop-on-backpressure isolation: an accepted submission puts the
\* chunk in the cache whatever sockets are ready, reaches every member of
\* the room (the sender excepted) that is ready to be written to, with one
\* live packet, and no member that is not ready.
DropIsolated ==
    (revent.ev = "audioStream" /\ revent.room \in DOMAIN rooms)
        => /\ firstSub[revent.room] # NoChunk
           /\ \A c \in rmembers[revent.room] \ {revent.sock} :
                 IF c \in revent.ready
                 THEN Cardinality(LiveTo(c)) = 1
                 ELSE LiveTo(c) = {}

\* C24, witness: the last submission, by the room's host, was dropped for
\* one consumer of the room and reached another.
DroppedForOneOnly ==
    /\ revent.ev = "audioStream"
    /\ revent.room \in DOMAIN rooms
    /\ revent.sock = revent.room
    /\ rooms[revent.room].listeners = 2
    /\ \E c, d \in rmembers[revent.room] \ {revent.sock} :
          /\ c \notin revent.ready
          /\ LiveTo(c) = {}
          /\ d \in revent.ready
          /\ LiveTo(d) # {}

\* C29. A consumer's disconnect takes 1 off the listener count of the room
\* it joined: when a socket that is in the socket.io room of an open room R
\* of another host disconnects, R's count goes down by 1.
ListenerDisconnectCounts ==
    [][\A s \in RSock : \A r \in Hosts :
          ( /\ rconn[s] = "open"
            /\ rconn'[s] = "closed"
            /\ s # r
            /\ r \in DOMAIN rooms
            /\ s \in rmembers[r]
            /\ rooms[r].listeners > 0 )
             => /\ r \in DOMAIN rooms'
                /\ rooms'[r].listeners = rooms[r].listeners - 1]_vars

\* C31. "No chunk yet" and "empty chunk" are distinct cache states: when the
\* first chunk submitted for a room's session is an empty (falsy) value, the
\* cache holds it as long as the room exists (a later chunk does not
\* replace it), and a joinEvent of a consumer on the room is answered with
\* it.
EmptyChunkIsCached ==
    \A r \in DOMAIN rooms :
        (firstSub[r] # NoChunk /\ ~Truthy(firstSub[r]))
            => /\ Header(r) = firstSub[r]
               /\ (revent.ev = "joinEvent" /\ revent.room = r /\ revent.sock # r)
                     => rsent = {[to |-> revent.sock, room |-> r,
                                  chunk |-> firstSub[r], live |-> FALSE]}

(***************************************************************************)
(* Further claims on the stream server                                     *)
(***************************************************************************)

\* C14. No lost update: every join-stream of an existing stream raises the
\* stream's count by exactly 1, whatever handlers ran before it, so k joins
\* of k sockets raise it by k.
JoinCountsOnce ==
    [][\A s \in Listeners : \A id \in TargetIds :
          (id \in DOMAIN streams /\ s \in Connected /\ JoinStream(s, id))
             => streams'[id].listeners = streams[id].listeners + 1]_vars

\* C14, witness: two sockets have joined one stream, in either order, and
\* its count is 2.
TwoJoinedCountTwo ==
    \E id \in Created :
        /\ streams[id].listeners = 2
        /\ streams[id].listenersList \in {<<"c2", "c3">>, <<"c3", "c2">>}

\* C15. A join-stream that names an id that is not in the table emits one
\* stream-error to the caller and changes no user, no stream and no room.
JoinNotFoundChangesNothing ==
    [][\A s \in Listeners : \A id \in TargetIds :
          (sevent' = NotFound("join-stream") /\ id \notin DOMAIN streams /\ JoinStream(s, id))
             => /\ UNCHANGED <<users, streams, smembers>>
                /\ JoinStreamOut(s, id) =
                      <<[ev |-> "stream-error", to |-> {s},
                         message |-> "Stream not found"]>>]_vars

\* C15, witness: the handler that ran last was a join-stream that did not
\* find its stream, sent by a socket that is bound to a stream of the table.
JoinNotFoundHappened ==
    /\ sevent = NotFound("join-stream")
    /\ \E s \in Listeners \cap Connected : users[s].currentRoom \in Created

\* C16. AlreadyProducing: a create-stream of a socket that is bound as the
\* host of a stream of the table creates no stream and leaves the table and
\* the socket's binding unchanged.
SecondCreateRefused ==
    [][\A s \in Producers : \A r \in Rnd :
          (CreateStream(s, r) /\ Hosting(s))
             => (streams' = streams /\ users' = users)]_vars

\* C18. destroySession is idempotent: an end-stream that names an id that
\* is not in the table (as a second end-stream of a stream does) changes
\* nothing and emits nothing.
EndStreamIdempotent ==
    [][\A s \in SSock : \A id \in TargetIds :
          (sevent' = NotFound("end-stream") /\ id \notin DOMAIN streams /\ EndStream(s, id))
             => /\ UNCHANGED <<users, streams, smembers, gone, now, created>>
                /\ EndStreamOut(s, id) = <<>>]_vars

\* C18, witness: the handler that ran last was an end-stream that did not
\* find its stream, and a stream has been removed from the table before (a
\* user is still bound to its id).
EndStreamAgainHappened ==
    /\ sevent = NotFound("end-stream")
    /\ \E u \in Connected : users[u].currentRoom \in GenIds \ DOMAIN streams

\* C19. listLiveSessions reflects only non-destroyed sessions: the list a
\* request-stream-list is answered with holds exactly the streams of the
\* table with their listener counts, and no stream whose host has
\* disconnected.
ListReflectsLive ==
    \A s \in Connected : \A m \in Lists(RequestStreamListOut(s)) :
        /\ DOMAIN m.list = DOMAIN streams
        /\ \A id \in DOMAIN m.list :
              /\ m.list[id] = streams[id].listeners
              /\ streams[id].host \notin gone

\* C20. onDisconnect dispatches on the binding of the socket: the stream a
\* host is bound to is removed, the stream a listener is bound to (and in
\* whose listenersList it is) loses 1 of its count and no other stream
\* changes, a socket with no binding changes no stream; the socket's user
\* entry is removed and no other user entry changes.
DisconnectDispatches ==
    [][\A s \in SSock :
          (s \in Connected /\ Disconnect(s))
             => /\ s \notin DOMAIN users'
                /\ \A u \in Connected \ {s} : users'[u] = users[u]
                /\ (users[s].type = "host" /\ IdTruthy(users[s].streamId))
                      => users[s].streamId \notin DOMAIN streams'
                /\ ( /\ users[s].type = "listener"
                     /\ IdTruthy(users[s].currentRoom)
                     /\ users[s].currentRoom \in DOMAIN streams
                     /\ \E i \in DOMAIN streams[users[s].currentRoom].listenersList :
                           streams[users[s].currentRoom].listenersList[i] = s )
                      => /\ DOMAIN streams' = DOMAIN streams
                         /\ \A id \in DOMAIN streams :
                               streams'[id].listeners =
                                  IF id = users[s].currentRoom
                                  THEN streams[id].listeners - 1
                                  ELSE streams[id].listeners
                /\ (users[s].type = "listener" /\ ~IdTruthy(users[s].currentRoom))
                      => streams' = streams]_vars

\* C21. Only the host of a stream can end it: an end-stream that names a
\* stream of the table and comes from a socket that is not the stream's host
\* leaves the stream in the table and leaves the user entries of the
\* requester and of the host as they were.
EndStreamByHostOnly ==
    [][\A s \in SSock : \A id \in TargetIds :
          ( /\ id \in DOMAIN streams
            /\ s \in Connected
            /\ streams[id].host # s
            /\ EndStream(s, id) )
             => /\ id \in DOMAIN streams'
                /\ users'[s] = users[s]
                /\ streams[id].host \in Connected
                      => users'[streams[id].host] = users[streams[id].host]]_vars

\* C22, as stated. Signaling relay: a signal from a connected socket F
\* addressed to socket T goes to T only, tagged with from = F and with the
\* payload unchanged, when T is connected, and to no socket when T is not.
SignalRelayed ==
    \A F \in Connected : \A T \in SSock : \A p \in Signals :
        SignalOut(F, T, p) =
            <<[ev |-> "signal", to |-> IF T \in Connected THEN {T} ELSE {},
               from |-> F, signal |-> p]>>

\* C22, amended. The same for a socket T other than F; a signal that F
\* addresses to itself goes to no socket.
SignalRelayedToPeer ==
    \A F \in Connected : \A T \in SSock : \A p \in Signals :
        SignalOut(F, T, p) =
            <<[ev |-> "signal",
               to |-> IF T \in Connected /\ T # F THEN {T} ELSE {},
               from |-> F, signal |-> p]>>

\* C22, witness: the handler that ran last was a signal that reached no
\* socket, two sockets are connected (each can signal the other) and one has
\* disconnected (a signal addressed to it is dropped).
SignalDropped ==
    /\ sevent = [ev |-> "signal", delivered |-> FALSE]
    /\ Cardinality(Connected) = 2
    /\ gone # {}

\* C27. The periodic sweep removes a stream only if its listener count is 0
\* and it started more than the grace period ago: a stream with a count of
\* 1 or more, or one that is younger, stays in the table when the timer
\* fires.
SweepOnlyEmptyAndOld ==
    [][Cleanup =>
          \A id \in DOMAIN streams :
              (streams[id].listeners > 0 \/ now - streams[id].startedAt <= GraceMinutes)
                 => (id \in DOMAIN streams' /\ streams'[id] = streams[id])]_vars

\* C27, witness: the timer has just deleted a stream, and a stream as old
\* that has a listener is still in the table.
SweptOneKeptOne ==
    /\ sevent = [ev |-> "cleanup", cleaned |-> 1]
    /\ \E id \in Created :
          /\ streams[id].listeners > 0
          /\ now - streams[id].startedAt > GraceMinutes

\* C28. Stream ids are fresh: the id a create-stream generates is the id of
\* no stream of the table, so that no stream is overwritten.
FreshStreamId ==
    [][\A s \in Producers : \A r \in Rnd :
          (s \in Connected /\ created' = created + 1 /\ CreateStream(s, r))
             => generateStreamId(now, r) \notin DOMAIN streams]_vars

\* The socket is in the listenersList of the stream.
Listed(s, id) ==
    \E i \in DOMAIN streams[id].listenersList : streams[id].listenersList[i] = s

\* C30. A connection is bound to at most one stream at a time: when a
\* socket that is bound to stream A, and counted in it, joins another stream
\* B, it is no longer in A's listenersList and A's count has gone down by 1.
JoinLeavesPrevious ==
    [][\A s \in Listeners : \A A, B \in TargetIds :
          ( /\ s \in Connected
            /\ A # B
            /\ A \in DOMAIN streams
            /\ B \in DOMAIN streams
            /\ users[s].currentRoom = A
            /\ Listed(s, A)
            /\ JoinStream(s, B) )
             => /\ \A i \in DOMAIN streams'[A].listenersList :
                      streams'[A].listenersList[i] # s
                /\ streams'[A].listeners = streams[A].listeners - 1]_vars

\* The messages of event ev among msgs.
Events(msgs, ev) == {msgs[i] : i \in {j \in DOMAIN msgs : msgs[j].ev = ev}}

\* The count-changed notification for stream id as it is after the step.
CountChanged(ev, id) ==
    [ev |-> ev, to |-> smembers'[id], streamId |-> id,
     totalListeners |-> streams'[id].listeners]

\* C32. Every join-stream of a stream of the table emits one listener-joined
\* to the members of the stream's room, with the stream's count after the
\* increment; every leave-stream of a stream of the table, and every
\* disconnect of a socket bound to a stream of the table that it does not
\* host, emits one listener-left to the room with the count after the
\* decrement.
CountChangeNotified ==
    [][ /\ \A s \in Listeners : \A id \in TargetIds :
              (id \in DOMAIN streams /\ s \in Connected /\ JoinStream(s, id))
                 => Events(JoinStreamOut(s, id), "listener-joined")
                       = {CountChanged("listener-joined", id)}
        /\ \A s \in Listeners : \A id \in TargetIds :
              (id \in DOMAIN streams /\ s \in Connected /\ LeaveStream(s, id))
                 => Events(LeaveStreamOut(s, id), "listener-left")
                       = {CountChanged("listener-left", id)}
        /\ \A s \in Listeners :
              (s \in Connected /\ s \notin DOMAIN users' /\ Listening(s) /\ Disconnect(s))
                 => Events(DisconnectOut(s), "listener-left")
                       = {CountChanged("listener-left", users[s].currentRoom)} ]_vars

\* C32, witness: the observed socket has joined a stream once, and its
\* leave-stream or disconnect has taken 1 off the stream's count.
JoinedAndLeftOnce ==
    /\ Tracking(hist)
    /\ hist.took = 1
    /\ hist.room \in DOMAIN streams

\* C35. Producer binding and stream table agree: every connected user of
\* type 'host' with a streamId has that stream in the table, and the
\* stream's host is that user's socket.
HostBindingAgrees ==
    \A u \in Connected :
        (users[u].type = "host" /\ IdTruthy(users[u].streamId))
            => /\ users[u].streamId \in DOMAIN streams
               /\ streams[users[u].streamId].host = u

\* C36. Each stream's listeners counter equals the length of its
\* listenersList, in the initial state and after any sequence of
\* join-stream, leave-stream and disconnect events.
ListenersMatchList ==
    \A id \in DOMAIN streams :
        streams[id].listeners = Len(streams[id].listenersList)

\* C34. Sweep liveness (checked under SpecStreamFair, where the cleanup
\* timer is fair): a stream that has no listener and is older than the
\* grace period is eventually out of the table unless it gets a listener,
\* and the run of the timer that deletes it broadcasts a stream-list
\* without it to every connected socket.
SweepDue(id) ==
    /\ id \in DOMAIN streams
    /\ streams[id].listeners = 0
    /\ now - streams[id].startedAt > GraceMinutes

SweepEventually ==
    /\ \A id \in GenIds :
          SweepDue(id) ~> (id \notin DOMAIN streams \/ streams[id].listeners > 0)
    /\ [][(Cleanup /\ \E id \in GenIds : SweepDue(id))
             => /\ Len(CleanupOut) = 1
                /\ CleanupOut[1].ev = "stream-list"
                /\ CleanupOut[1].to = Connected
                /\ \A id \in GenIds :
                      SweepDue(id) => /\ id \notin DOMAIN streams'
                                      /\ id \notin DOMAIN CleanupOut[1].list]_vars

\* C34, witness: c1 is the only socket that ever connected and is still
\* bound as the host of a stream that is no longer in the table; no
\* end-stream of another socket and no disconnect has run, so the timer has
\* deleted the stream.
SweptUnderHost ==
    /\ Connected = {"c1"}
    /\ gone = {}
    /\ users["c1"].type = "host"
    /\ IdTruthy(users["c1"].streamId)
    /\ users["c1"].streamId \notin DOMAIN streams
    /\ now > GraceMinutes

(***************************************************************************)
(* Claims on the stream server with uuid ids (checked under SpecUuid)      *)
(***************************************************************************)

UpdateByHostOnly ==
    [][\A s \in USock, id \in UIds, updates \in Updates :
          UUpdateStream(s, id, updates)
              => /\ (id \in DOMAIN ustreams /\ ustreams[id].host # s)
                     => /\ ustreams' = ustreams
                        /\ UUpdateStreamOut(s, id, updates) = <<>>
                 /\ ustreams' # ustreams
                     => /\ id \in DOMAIN ustreams
                        /\ ustreams[id].host = s
                        /\ ustreams'[id] = Assign(ustreams[id], updates)
                        /\ Len(UUpdateStreamOut(s, id, updates)) = 2]_vars

\* C37, witness: the handler that ran last was an update-stream that was
\* not applied, sent by a connected socket while a stream hosted by another
\* socket was in the table.
UpdateRefused ==
    /\ uevent = UpdateDone(FALSE)
    /\ \E id \in DOMAIN ustreams, s \in DOMAIN uusers : ustreams[id].host # s

(***************************************************************************)
(* Claims on the global chat server (checked under SpecChat)               *)
(***************************************************************************)

\* C25. The chat history is bounded with FIFO eviction: chatHistory holds
\* at most HistoryLimit messages, and they are the latest chat events in
\* the order they were made (only the oldest are evicted).
HistoryBoundedFifo ==
    /\ Len(chatHistory) <= HistoryLimit
    /\ \A i \in DOMAIN chatHistory : chatHistory[i] = pushed - Len(chatHistory) + i

\* C26. Chat and gift events are appended to the history before they are
\* fanned out: every chatMessage and giftReceived message the last handler
\* emitted was in chatHistory at the moment it was emitted.
StoredBeforeFanOut ==
    \A i \in DOMAIN chatSent :
        chatSent[i].ev \in {"chatMessage", "giftReceived"} => chatSent[i].stored

\* C33. History replay on connect: the chat-history message sent to a
\* socket that has just connected holds the most recent
\* min(ReplaySize, Len(chatHistory)) entries of chatHistory, in the order
\* they were appended.
ReplayIsRecentSuffix ==
    \A i \in DOMAIN chatSent :
        chatSent[i].ev = "chat-history"
            => LET list == chatSent[i].list
                   n == IF Len(chatHistory) < ReplaySize THEN Len(chatHistory)
                        ELSE ReplaySize
               IN /\ \E s \in GSock : chatSent[i].to = {s} /\ chatConn[s] = "open"
                  /\ Len(list) = n
                  /\ \A k \in 1..n : list[k] = chatHistory[Len(chatHistory) - n + k]

\* C33, witness: a socket has just connected while the history held more
\* than ReplaySize entries, so the replay left the oldest ones out.
ReplayedLongHistory ==
    /\ chatSent # <<>>
    /\ chatSent[1].ev = "chat-history"
    /\ Len(chatHistory) > ReplaySize

\* C38. Whenever the status is live (hostPeerId is not null), the recorded
\* host socket hostSocketId is a socket that is connected now.
LiveHostIsConnected ==
    hostPeerId # Null
        => /\ hostSocketId \in GSock
           /\ chatConn[hostSocketId] = "open"

\* C38, witness: the status is live with g2 as the host, g2 took the host
\* role over (its onlineUsers entry is the host's), and g1 has disconnected.
LiveAfterOtherLeft ==
    /\ hostPeerId # Null
    /\ hostSocketId = "g2"
    /\ chatConn["g1"] = "closed"
    /\ "g2" \in DOMAIN onlineUsers
    /\ onlineUsers["g2"].role = "host"

====
